---- MODULE Spec2Model ----
(***************************************************************************)
(* One invocation of print-plant.py (literal mode) or print.py (remote     *)
(* fetch mode): main, the helpers it calls and _send_zpl_bytes_to_cups.    *)
(* A Python str is a tuple of code points, bytes a tuple of 0..255.        *)
(* A Python value is a record [tag, s, n]: tag "str" (text s), "num"       *)
(* (number n), "none" (None), "dict" (a non-empty mapping) or "absent"     *)
(* (the key is missing from the enclosing dict).                           *)
(***************************************************************************)
EXTENDS Integers, Sequences, FiniteSets, TLC

VARIABLES
    script,          \* "plant" (print-plant.py) or "homebox" (print.py)
    argv,            \* sys.argv, argv[1] is sys.argv[0]
    environ,         \* os.environ: each variable "unset", "empty" or "set"
    pc,              \* position in main / _send_zpl_bytes_to_cups
    exit_code,       \* -1 while running, then the process exit status
    ops,             \* external operations attempted so far, in order
    stdout,          \* diagnostic lines printed so far
    api_token,       \* main: api_token
    asset_record_id, \* main: asset_record_id
    item_details,    \* main: item_details
    last_response,   \* [of, resp]: the most recent HTTP response and its request
    template_context,\* main: template_context, [ok, ctx]
    template,        \* the template file read by render_zpl_template
    rendered,        \* main: rendered_zpl_string, [ok, text]
    zpl_data_bytes,  \* argument of _send_zpl_bytes_to_cups
    job_title_identifier, \* argument of _send_zpl_bytes_to_cups
    job_title,       \* _send_zpl_bytes_to_cups: job_title
    conn,            \* "none", "ok" or "failed"
    printers,        \* [known, names]: the keys of conn.getPrinters()
    tmpfile,         \* the NamedTemporaryFile on disk
    temp_file_path,  \* "" is None, else tmp.name
    print_outcome,   \* "none", "job" (printFile returned a job id), "ipp_error"
    retval,          \* value of the return statement reached in the try body
    send_return,     \* "none" until the call has returned, then "true"/"false"
    remove_log,      \* outcomes of the os.remove calls of the finally block
    phases,          \* phases of _send_zpl_bytes_to_cups entered so far
    stage_log        \* pipeline stages of main that ended, with their outcome

vars == <<script, argv, environ, pc, exit_code, ops, stdout, api_token,
          asset_record_id, item_details, last_response, template_context, template, rendered,
          zpl_data_bytes, job_title_identifier, job_title, conn, printers, tmpfile,
          temp_file_path, print_outcome, retval, send_return, remove_log, phases, stage_log>>

(***************************************************************************)
(* Bounds of the model.                                                    *)
(***************************************************************************)
MaxArgc == 9
MaxPrinters == 2
MaxMatches == 2

(***************************************************************************)
(* Python values and text.                                                 *)
(***************************************************************************)
Str(t) == [tag |-> "str", s |-> t, n |-> 0]
Num(k) == [tag |-> "num", s |-> <<>>, n |-> k]
None == [tag |-> "none", s |-> <<>>, n |-> 0]
Dict == [tag |-> "dict", s |-> <<>>, n |-> 0]
Absent == [tag |-> "absent", s |-> <<>>, n |-> 0]

\* "N/A"
NA == <<78, 47, 65>>

Range(f) == {f[i] : i \in DOMAIN f}

Min(a, b) == IF a < b THEN a ELSE b
Max(a, b) == IF a > b THEN a ELSE b

\* bool(v)
Truthy(v) ==
    CASE v.tag = "str" -> v.s # <<>>
      [] v.tag = "num" -> v.n # 0
      [] v.tag = "dict" -> TRUE
      [] OTHER -> FALSE

\* str(k) for a non-negative integer
RECURSIVE Digits(_)
Digits(k) == IF k < 10 THEN <<48 + k>> ELSE Digits(k \div 10) \o <<48 + (k % 10)>>

\* str(v), as an f-string or Jinja2 prints a value
PyStr(v) ==
    CASE v.tag = "str" -> v.s
      [] v.tag = "num" -> Digits(v.n)
      [] v.tag = "none" -> <<78, 111, 110, 101>>
      [] OTHER -> <<123, 125>>

\* d.get(key, default) where field is d's entry for key, Absent when missing
Get(field, default) == IF field.tag = "absent" THEN default ELSE field

\* s[:k]
Head_(s, k) == SubSeq(s, 1, Min(k, Len(s)))
\* s[-k:]
Tail_(s, k) == SubSeq(s, Max(1, Len(s) - k + 1), Len(s))

\* one code point as UTF-8
Utf8Char(cp) ==
    IF cp < 128 THEN <<cp>>
    ELSE IF cp < 2048 THEN <<192 + (cp \div 64), 128 + (cp % 64)>>
    ELSE IF cp < 65536
         THEN <<224 + (cp \div 4096), 128 + ((cp \div 64) % 64), 128 + (cp % 64)>>
         ELSE <<240 + (cp \div 262144), 128 + ((cp \div 4096) % 64),
                128 + ((cp \div 64) % 64), 128 + (cp % 64)>>

\* text.encode('utf-8'): the code points' encodings, concatenated in order
\* (the text is split in halves to keep the evaluation shallow)
RECURSIVE Utf8Encode(_)
Utf8Encode(t) ==
    IF t = <<>> THEN <<>>
    ELSE IF Len(t) = 1 THEN Utf8Char(t[1])
    ELSE Utf8Encode(SubSeq(t, 1, Len(t) \div 2))
         \o Utf8Encode(SubSeq(t, (Len(t) \div 2) + 1, Len(t)))

(***************************************************************************)
(* Module-level configuration.                                             *)
(***************************************************************************)
PRINTER_QUEUE_NAME == "Zebra-ZD421-203dpi-ZPL"
CUPS_SERVER_IP == "192.168.2.63"
CUPS_SERVER_PORT == 631
REQUESTS_TIMEOUT == 10

\* the five variables print.py reads from os.environ
EnvVars == {"HOMEBOX_API_URL", "HOMEBOX_USERNAME", "HOMEBOX_PASSWORD",
            "OWNER_TEXT", "ASSET_LABEL_URL_PREFIX"}

EnvStates == {"unset", "empty", "set"}

\* os.environ.get(name): None when unset, '' when empty, else value
EnvGet(env, name, value) ==
    CASE env[name] = "unset" -> None
      [] env[name] = "empty" -> Str(<<>>)
      [] OTHER -> Str(value)

\* os.environ.get("OWNER_TEXT"): "Me" when set
OWNER_TEXT == EnvGet(environ, "OWNER_TEXT", <<77, 101>>)
\* os.environ.get("ASSET_LABEL_URL_PREFIX"): "u/" when set
ASSET_LABEL_URL_PREFIX == EnvGet(environ, "ASSET_LABEL_URL_PREFIX", <<117, 47>>)

(***************************************************************************)
(* check_env_vars: the names appended to missing_vars, in the code's order *)
(***************************************************************************)
EnvOrder == <<"HOMEBOX_API_URL", "HOMEBOX_USERNAME", "HOMEBOX_PASSWORD",
              "OWNER_TEXT", "ASSET_LABEL_URL_PREFIX">>

RECURSIVE MissingFrom(_, _)
MissingFrom(order, env) ==
    IF order = <<>> THEN <<>>
    ELSE (IF Truthy(EnvGet(env, Head(order), <<118>>)) THEN <<>> ELSE <<Head(order)>>)
         \o MissingFrom(Tail(order), env)

\* mutant of missing_vars: only the three variables of the module docstring
missing_varsDocumented(env) == MissingFrom(SubSeq(EnvOrder, 1, 3), env)

missing_vars(env) == MissingFrom(EnvOrder, env)

(***************************************************************************)
(* prepare_template_context                                                *)
(***************************************************************************)
ItemKeys == {"assetId", "name", "description", "modelNumber", "serialNumber",
             "purchaseFrom", "purchasePrice", "purchaseTime", "location",
             "location.name"}

\* bool(item_details): an empty dict is falsy
ItemTruthy(item) == \E k \in ItemKeys \ {"location.name"} : item[k].tag # "absent"

\* " | ", " | Serial ", " | Seller ", " | ZAR ", " on "
SepBar == <<32, 124, 32>>
SepSerial == <<32, 124, 32, 83, 101, 114, 105, 97, 108, 32>>
SepSeller == <<32, 124, 32, 83, 101, 108, 108, 101, 114, 32>>
SepZar == <<32, 124, 32, 90, 65, 82, 32>>
SepOn == <<32, 111, 110, 32>>

\* item_details.get('location', {}).get('name', 'N/A')
LocationName(item) ==
    IF item["location"].tag = "absent" THEN Str(NA)
    ELSE Get(item["location.name"], Str(NA))

\* the subscripts and attribute accesses that raise TypeError / AttributeError
ContextRaises(item) ==
    \/ Get(item["description"], Str(NA)).tag # "str"
    \/ Get(item["serialNumber"], Str(NA)).tag # "str"
    \/ item["location"].tag \notin {"absent", "dict"}

ContextOf(item) ==
    LET asset_id_tag == Get(item["assetId"], Str(NA))
        model_number == Get(item["modelNumber"], Str(NA))
        serial_number == Get(item["serialNumber"], Str(NA))
        purchase_from == Get(item["purchaseFrom"], Str(NA))
        purchase_price == Get(item["purchasePrice"], Num(0))
        purchase_time == Get(item["purchaseTime"], Str(NA))
        summary == PyStr(asset_id_tag) \o SepBar \o PyStr(model_number)
                   \o SepSerial \o PyStr(serial_number)
                   \o SepSeller \o PyStr(purchase_from)
                   \o SepZar \o PyStr(purchase_price)
                   \o SepOn \o PyStr(purchase_time)
    IN  [asset_id_tag |-> asset_id_tag,
         name |-> Get(item["name"], Str(NA)),
         description |-> Str(Head_(Get(item["description"], Str(NA)).s, 28)),
         model_number |-> model_number,
         serial_number |-> Str(Tail_(serial_number.s, 10)),
         purchase_price |-> purchase_price,
         purchase_from |-> purchase_from,
         purchase_date |-> purchase_time,
         location_name |-> LocationName(item),
         asset_label_url |->
             IF asset_id_tag # Str(NA)
             THEN Str(PyStr(ASSET_LABEL_URL_PREFIX) \o PyStr(asset_id_tag))
             ELSE Str(NA),
         summary_line |-> Str(summary),
         owner_text |-> OWNER_TEXT,
         raw_api_response |-> Dict]

\* [ok |-> FALSE] stands for an exception leaving the function
prepare_template_context(item) ==
    IF ~ItemTruthy(item) THEN [ok |-> TRUE, ctx |-> << >>]
    ELSE IF ContextRaises(item) THEN [ok |-> FALSE, ctx |-> << >>]
    ELSE [ok |-> TRUE, ctx |-> ContextOf(item)]

\* print-plant.py main: the literal template_context
PlantContext(args) ==
    [scientific |-> Str(args[3]), afr |-> Str(args[4]), eng |-> Str(args[5]),
     sep |-> Str(args[6]), region |-> Str(args[7]), url |-> Str(args[8])]

(***************************************************************************)
(* render_zpl_template                                                     *)
(***************************************************************************)
\* name.lower()
Lower(t) == [i \in DOMAIN t |-> IF t[i] \in 65..90 THEN t[i] + 32 ELSE t[i]]

EndsWith(t, suffix) ==
    /\ Len(t) >= Len(suffix)
    /\ SubSeq(t, Len(t) - Len(suffix) + 1, Len(t)) = suffix

\* os.path.basename
RECURSIVE Basename(_)
Basename(path) ==
    IF \E i \in DOMAIN path : path[i] = 47
    THEN Basename(Tail(path))
    ELSE path

\* select_autoescape(['html', 'xml', 'zpl']) applied to the template name
Autoescape(template_filename) ==
    \E ext \in {<<46, 104, 116, 109, 108>>, <<46, 120, 109, 108>>, <<46, 122, 112, 108>>} :
        EndsWith(Lower(template_filename), ext)

\* markupsafe.escape of one code point
EscapeChar(cp) ==
    CASE cp = 38 -> <<38, 97, 109, 112, 59>>
      [] cp = 60 -> <<38, 108, 116, 59>>
      [] cp = 62 -> <<38, 103, 116, 59>>
      [] cp = 39 -> <<38, 35, 51, 57, 59>>
      [] cp = 34 -> <<38, 35, 51, 52, 59>>
      [] OTHER -> <<cp>>

\* markupsafe.escape: the code points' replacements, concatenated in order
RECURSIVE Escape(_)
Escape(t) ==
    IF t = <<>> THEN <<>>
    ELSE IF Len(t) = 1 THEN EscapeChar(t[1])
    ELSE Escape(SubSeq(t, 1, Len(t) \div 2))
         \o Escape(SubSeq(t, (Len(t) \div 2) + 1, Len(t)))

\* one {{ name }} or {{ name | default('N/A') }}; an undefined name prints as ''
RenderVar(piece, ctx, autoescape) ==
    LET text == IF piece.name \in DOMAIN ctx THEN PyStr(ctx[piece.name])
                ELSE IF piece.default THEN NA ELSE <<>>
    IN  IF autoescape THEN Escape(text) ELSE text

RECURSIVE RenderBody(_, _, _)
RenderBody(body, ctx, autoescape) ==
    IF body = <<>> THEN <<>>
    ELSE (IF Head(body).kind = "lit" THEN Head(body).text
          ELSE RenderVar(Head(body), ctx, autoescape))
         \o RenderBody(Tail(body), ctx, autoescape)

\* exists: os.path.exists(template_path); tpl: what env.get_template finds
render_zpl_template(template_path, exists, tpl, ctx) ==
    IF ~exists THEN [ok |-> FALSE, text |-> <<>>]
    ELSE IF ~tpl.loadable THEN [ok |-> FALSE, text |-> <<>>]
    ELSE [ok |-> TRUE,
          text |-> RenderBody(tpl.body, ctx, Autoescape(Basename(template_path)))]

(***************************************************************************)
(* Decisions of main, print.py 309-370 and print-plant.py 134-176.         *)
(* "exit1" is sys.exit(1) or an uncaught exception.                        *)
(***************************************************************************)
\* check_env_vars: if missing_vars: ... sys.exit(1)
EnvNext(env) == IF missing_vars(env) # <<>> THEN "exit1" ELSE "m_args"


\* mutant of ArgCountOk: the literal-mode check written like print.py's (<)
ArgCountOkAtLeast(s, args) == ~(Len(args) < (IF s = "plant" THEN 8 ELSE 3))

\* len(sys.argv) != 8 (print-plant.py), len(sys.argv) < 3 (print.py)
ArgCountOk(s, args) == IF s = "plant" THEN Len(args) = 8 ELSE ~(Len(args) < 3)

ArgNext(s, args) == IF ArgCountOk(s, args) THEN "m_template" ELSE "exit1"

\* if not os.path.exists(zpl_template_file): sys.exit(1)
TemplateCheckNext(s, exists) ==
    IF ~exists THEN "exit1" ELSE IF s = "plant" THEN "m_context" ELSE "m_login"


\* mutant of LoginNext: a failed login is tried again
LoginNextRetry(token) == IF ~Truthy(token) THEN "m_login" ELSE "m_search"

\* if not api_token: sys.exit(1)
LoginNext(token) == IF ~Truthy(token) THEN "exit1" ELSE "m_search"

\* if not asset_record_id: sys.exit(1)
SearchNext(record_id) == IF ~Truthy(record_id) THEN "exit1" ELSE "m_fetch"


\* mutant of FetchNext: the checks of item_details are missing
FetchNextUnchecked(details) == "m_context"

\* if not item_details: sys.exit(1), inside and after the session block
FetchNext(details) ==
    IF ~(details.ok /\ ItemTruthy(details.item)) THEN "exit1" ELSE "m_context"

\* an exception of prepare_template_context is not caught
ContextNext(context) == IF context.ok THEN "m_render" ELSE "exit1"

\* mutant of RenderNext: the result of the renderer is not tested
RenderNextUnchecked(r) == "s_connect"

\* if rendered_zpl_string: ... else: sys.exit(1)
RenderNext(r) == IF r.ok /\ r.text # <<>> THEN "s_connect" ELSE "exit1"

(***************************************************************************)
(* The Homebox API helpers. A response is [kind, ...]: kind "timeout" and  *)
(* "transport" raise RequestException in session.post/get, "status" raises *)
(* in raise_for_status, "badjson" in response.json, "json" is a parsed     *)
(* body.                                                                   *)
(***************************************************************************)
ErrorKinds == {"timeout", "transport", "status", "badjson"}

\* token_data.get("token"), None on every except path
get_homebox_api_token(resp) ==
    IF resp.kind # "json" THEN None ELSE Get(resp.token, None)

\* mutant of get_asset_record_id: the last match is taken instead of the first
get_asset_record_idLast(resp) ==
    IF resp.kind # "json" THEN None
    ELSE IF resp.total > 0 /\ resp.items # <<>>
         THEN (IF Truthy(Get(resp.items[Len(resp.items)], None))
               THEN resp.items[Len(resp.items)] ELSE None)
         ELSE None

\* asset_list_data["items"][0].get("id") when total > 0 and items is non-empty
get_asset_record_id(resp) ==
    IF resp.kind # "json" THEN None
    ELSE IF resp.total > 0 /\ resp.items # <<>>
         THEN (IF Truthy(Get(resp.items[1], None)) THEN resp.items[1] ELSE None)
         ELSE None

EmptyItem == [k \in ItemKeys |-> Absent]

\* response.json(), None on every except path
get_asset_details(resp) ==
    IF resp.kind # "json" THEN [ok |-> FALSE, item |-> EmptyItem]
    ELSE [ok |-> TRUE, item |-> resp.item]

(***************************************************************************)
(* main 361-365 / 169-171: the job identifier. ok is FALSE when            *)
(* job_identifier += ... raises because the tag is not a str.              *)
(***************************************************************************)
JobIdentifier(s, ctx) ==
    IF s = "plant" THEN [ok |-> TRUE, id |-> ctx["scientific"]]
    ELSE LET tag == ctx["asset_id_tag"]
             name == ctx["name"]
         IN  IF Truthy(name) /\ name # Str(NA)
             THEN (IF tag.tag = "str"
                   THEN [ok |-> TRUE,
                         id |-> Str(tag.s \o <<32, 40>> \o PyStr(name) \o <<41>>)]
                   ELSE [ok |-> FALSE, id |-> None])
             ELSE [ok |-> TRUE, id |-> tag]

(***************************************************************************)
(* Decisions of _send_zpl_bytes_to_cups.                                   *)
(***************************************************************************)
\* "Homebox ZPL Print"
base_job_title == <<72, 111, 109, 101, 98, 111, 120, 32, 90, 80, 76, 32,
                    80, 114, 105, 110, 116>>

\* mutant of JobTitle: the identifier is left out of the title
JobTitleFixed(identifier) == base_job_title

\* job_title = f"{base_job_title}: {job_title_identifier}" if
\* job_title_identifier else base_job_title
JobTitle(identifier) ==
    IF Truthy(identifier)
    THEN base_job_title \o <<58, 32>> \o PyStr(identifier)
    ELSE base_job_title

\* options passed to printFile
options == [document_format |-> "application/octet-stream", raw |-> "true"]

\* the arguments of conn.printFile(PRINTER_QUEUE_NAME, temp_file_path,
\* job_title, options)
PrintFileCall(path, title) ==
    [printer |-> PRINTER_QUEUE_NAME, filename |-> path, title |-> title,
     options |-> options]


\* mutant of ConnectNext: the RuntimeError is swallowed and the call goes on
ConnectNextSwallow(outcome) == "s_printers"

\* cups.Connection raises RuntimeError: except ... return False
ConnectNext(outcome) == IF outcome = "ok" THEN "s_printers" ELSE "s_finally"

\* if not printers / if PRINTER_QUEUE_NAME not in printers
QueueCheck(names) ==
    IF names = <<>> THEN "no_printers"
    ELSE IF PRINTER_QUEUE_NAME \notin Range(names) THEN "queue_not_found"
    ELSE "ok"


\* mutant of PrintersNext: the queue is not validated before staging
PrintersNextUnvalidated(names) == "s_stage"

PrintersNext(names) == IF QueueCheck(names) = "ok" THEN "s_stage" ELSE "s_finally"


\* mutant of AvailableLines: the loop stops one queue short
AvailableLinesShort(names) ==
    [i \in 1..(Len(names) - 1) |-> [kind |-> "available", arg |-> names[i]]]

\* for printer_name in printers: print(f"  - {printer_name}")
AvailableLines(names) == [i \in DOMAIN names |-> [kind |-> "available", arg |-> names[i]]]

QueueMessages(names) ==
    CASE QueueCheck(names) = "no_printers" -> <<[kind |-> "no_printers", arg |-> ""]>>
      [] QueueCheck(names) = "queue_not_found" ->
            <<[kind |-> "queue_not_found", arg |-> PRINTER_QUEUE_NAME],
              [kind |-> "available_header", arg |-> ""]>> \o AvailableLines(names)
      [] OTHER -> <<>>

\* the with block: "create_error" raises in NamedTemporaryFile, "write_error"
\* in tmp.write, "close_error" when the block is left, after tmp.name was
\* assigned to temp_file_path
StageOutcomes == {"ok", "create_error", "write_error", "close_error"}

StagedPath(outcome) == IF outcome \in {"ok", "close_error"} THEN "tmp.zpl" ELSE ""

StageNext(outcome) == IF outcome = "ok" THEN "s_print" ELSE "s_finally"

\* mutant of StagedFile: the file is handed on before the with block has
\* flushed and closed it
StagedFileUnclosed(outcome, data, part) ==
    CASE outcome = "create_error" ->
            [created |-> FALSE, exists |-> FALSE, content |-> <<>>, closed |-> FALSE]
      [] OTHER ->
            [created |-> TRUE, exists |-> TRUE, content |-> SubSeq(data, 1, part),
             closed |-> FALSE]

\* the file the with block leaves on disk (delete=False); part is what was
\* written before an error
StagedFile(outcome, data, part) ==
    CASE outcome = "create_error" ->
            [created |-> FALSE, exists |-> FALSE, content |-> <<>>, closed |-> FALSE]
      [] outcome = "ok" ->
            [created |-> TRUE, exists |-> TRUE, content |-> data, closed |-> TRUE]
      [] OTHER ->
            [created |-> TRUE, exists |-> TRUE, content |-> SubSeq(data, 1, part),
             closed |-> TRUE]

\* mutant of PrintResult: an exception of printFile still yields True
PrintResultAlways(outcome) == "true"

\* return True after printFile, return False in the except clauses
PrintResult(outcome) == IF outcome = "job" THEN "true" ELSE "false"


\* mutant of ShouldRemove: the existence test is inverted
ShouldRemoveInverted(path, exists) == path # "" /\ ~exists

\* if temp_file_path and os.path.exists(temp_file_path)
ShouldRemove(path, exists) == path # "" /\ exists


\* mutant of FinallyReturn: a failed deletion turns the result into False
FinallyReturnOnError(ret, remove_outcome) ==
    IF remove_outcome = "oserror" THEN "false" ELSE ret

\* the finally block catches OSError of os.remove and has no return statement
FinallyReturn(ret, remove_outcome) == ret

(***************************************************************************)
(* Inputs: what the command line, the environment, the Homebox service,    *)
(* the template file and the CUPS server can present.                      *)
(***************************************************************************)
\* "t.zpl" (autoescaped by its extension) and "t.j2"
TemplatePaths == {<<116, 46, 122, 112, 108>>, <<116, 46, 106, 50>>}

\* sys.argv[2]: "C", "" and "R&e-acute"
FirstValues == {<<67>>, <<>>, <<82, 38, 233>>}

BuildArgv(n, path, first) ==
    [i \in 1..n |-> CASE i = 1 -> <<112>>
                      [] i = 2 -> path
                      [] i = 3 -> first
                      [] OTHER -> <<64 + i>>]

ArgvSet == {BuildArgv(n, path, first) :
                n \in 1..MaxArgc, path \in TemplatePaths, first \in FirstValues}

Lit(t) == [kind |-> "lit", text |-> t, name |-> "", default |-> FALSE]
Var(v) == [kind |-> "var", text |-> <<>>, name |-> v, default |-> FALSE]
VarD(v) == [kind |-> "var", text |-> <<>>, name |-> v, default |-> TRUE]

\* "^XA" and "^XZ"
XA == <<94, 88, 65>>
XZ == <<94, 88, 90>>

NoTemplate == [loadable |-> FALSE, body |-> <<>>]

Templates ==
    { NoTemplate,
      [loadable |-> TRUE, body |-> <<>>],
      [loadable |-> TRUE, body |-> <<Var("scientific")>>],
      [loadable |-> TRUE,
       body |-> <<Lit(XA), Var("scientific"), Var("afr"), Var("eng"), Var("sep"),
                  Var("region"), Var("url"), Lit(XZ)>>],
      [loadable |-> TRUE,
       body |-> <<Lit(XA), Var("asset_id_tag"), Var("name"), VarD("location_name"),
                  Var("description"), Var("serial_number"), Var("asset_label_url"),
                  Var("summary_line"), VarD("missing"), Lit(XZ)>>] }

\* a 30-character description and a 12-character serial number
LongDescription == [i \in 1..30 |-> 97 + ((i - 1) % 26)]
LongSerial == [i \in 1..12 |-> 48 + ((i - 1) % 10)]

FullItem ==
    [k \in ItemKeys |->
        CASE k = "assetId" -> Str(<<48, 49>>)
          [] k = "name" -> Str(<<68, 114>>)
          [] k = "description" -> Str(LongDescription)
          [] k = "modelNumber" -> Str(<<77, 49>>)
          [] k = "serialNumber" -> Str(LongSerial)
          [] k = "purchaseFrom" -> Str(<<83>>)
          [] k = "purchasePrice" -> Num(25)
          [] k = "purchaseTime" -> Str(<<50, 48>>)
          [] k = "location" -> Dict
          [] OTHER -> Str(<<76>>)]

Items ==
    { EmptyItem,
      FullItem,
      [k \in ItemKeys |-> IF k \in {"assetId", "name"} THEN FullItem[k] ELSE Absent],
      [k \in ItemKeys |-> CASE k = "purchasePrice" -> Num(0)
                            [] k = "location" -> Dict
                            [] OTHER -> Str(<<>>)],
      [FullItem EXCEPT !["description"] = None],
      [FullItem EXCEPT !["location"] = None],
      [FullItem EXCEPT !["assetId"] = None],
      [FullItem EXCEPT !["name"] = Str(NA)] }

TokenValues == {Absent, None, Str(<<>>), Str(<<116, 107>>), Str(<<116, 50>>)}

LoginResponses ==
    [kind : ErrorKinds, token : {Absent}] \cup [kind : {"json"}, token : TokenValues]

IdValues == {Absent, Str(<<>>), Str(<<105, 49>>), Str(<<105, 50>>)}

SearchResponses ==
    [kind : ErrorKinds, total : {0}, items : {<<>>}]
    \cup [kind : {"json"}, total : 0..MaxMatches,
          items : UNION {[1..n -> IdValues] : n \in 0..MaxMatches}]

FetchResponses ==
    [kind : ErrorKinds, item : {EmptyItem}] \cup [kind : {"json"}, item : Items]

QueueNames == {PRINTER_QUEUE_NAME, "Office-Laser", "Label-2"}

\* the keys of the dict conn.getPrinters() returns: distinct, in the dict's order
PrinterLists ==
    {q \in UNION {[1..n -> QueueNames] : n \in 0..MaxPrinters} :
        \A i, j \in DOMAIN q : i # j => q[i] # q[j]}

Op(name, arg) == [op |-> name, arg |-> arg, auth |-> Absent]

\* mutant of AuthorizationHeader: the standard "Bearer " scheme prefix is added
AuthorizationBearer(token) ==
    Str(<<66, 101, 97, 114, 101, 114, 32>> \o PyStr(token))

\* headers = {"Authorization": api_token}: the raw token
AuthorizationHeader(token) == token

\* a session.get with its Authorization header
Request(name, arg, token) ==
    [op |-> name, arg |-> arg, auth |-> AuthorizationHeader(token)]
Line(kind, arg) == [kind |-> kind, arg |-> arg]
Stage(name, ok) == [stage |-> name, ok |-> ok]

NoFile == [created |-> FALSE, exists |-> FALSE, content |-> <<>>, closed |-> FALSE]

(***************************************************************************)
(* The state when the interpreter enters main.                             *)
(***************************************************************************)
Init ==
    /\ script \in {"plant", "homebox"}
    /\ argv \in ArgvSet
    /\ environ \in (IF script = "homebox" THEN [EnvVars -> EnvStates]
                    ELSE {[v \in EnvVars |-> "unset"]})
    /\ pc = IF script = "homebox" THEN "m_env" ELSE "m_args"
    /\ exit_code = -1
    /\ ops = <<>>
    /\ stdout = <<>>
    /\ api_token = None
    /\ asset_record_id = None
    /\ item_details = [ok |-> FALSE, item |-> EmptyItem]
    /\ last_response = [of |-> "none", resp |-> [kind |-> "none"]]
    /\ template_context = [ok |-> FALSE, ctx |-> <<>>]
    /\ template = NoTemplate
    /\ rendered = [ok |-> FALSE, text |-> <<>>]
    /\ zpl_data_bytes = <<>>
    /\ job_title_identifier = None
    /\ job_title = <<>>
    /\ conn = "none"
    /\ printers = [known |-> FALSE, names |-> <<>>]
    /\ tmpfile = NoFile
    /\ temp_file_path = ""
    /\ print_outcome = "none"
    /\ retval = "none"
    /\ send_return = "none"
    /\ remove_log = <<>>
    /\ phases = <<>>
    /\ stage_log = <<>>

inputVars == <<script, argv, environ>>
fetchVars == <<api_token, asset_record_id, item_details, last_response>>
renderVars == <<template_context, template, rendered>>
sendVars == <<zpl_data_bytes, job_title_identifier, job_title, conn, printers, tmpfile, temp_file_path,
              print_outcome, retval, send_return, remove_log, phases>>

\* continue at next, or leave the process with status 1
Goto(next) ==
    /\ pc' = IF next = "exit1" THEN "done" ELSE next
    /\ exit_code' = IF next = "exit1" THEN 1 ELSE exit_code

(***************************************************************************)
(* main                                                                    *)
(***************************************************************************)
\* print.py 310: check_env_vars()
CheckEnvVars ==
    /\ pc = "m_env"
    /\ Goto(EnvNext(environ))
    /\ stdout' = IF missing_vars(environ) # <<>>
                 THEN stdout \o <<Line("missing_env", "")>>
                      \o [i \in DOMAIN missing_vars(environ) |->
                             Line("missing_var", missing_vars(environ)[i])]
                 ELSE stdout
    /\ UNCHANGED <<inputVars, ops, fetchVars, renderVars, sendVars, stage_log>>

\* print.py 312-318, print-plant.py 135-146
ArgCheck ==
    /\ pc = "m_args"
    /\ Goto(ArgNext(script, argv))
    /\ stdout' = IF ArgNext(script, argv) = "exit1"
                 THEN stdout \o <<Line("usage", "")>> ELSE stdout
    /\ stage_log' = IF script = "plant"
                    THEN Append(stage_log, Stage("source", ArgCountOk(script, argv)))
                    ELSE stage_log
    /\ UNCHANGED <<inputVars, ops, fetchVars, renderVars, sendVars>>

\* print.py 320-322, print-plant.py 148-150
TemplateCheck ==
    /\ pc = "m_template"
    /\ \E exists \in BOOLEAN :
        /\ Goto(TemplateCheckNext(script, exists))
        /\ stdout' = IF exists THEN stdout
                     ELSE stdout \o <<Line("template_not_found", "")>>
    /\ ops' = Append(ops, Op("exists", argv[2]))
    /\ UNCHANGED <<inputVars, fetchVars, renderVars, sendVars, stage_log>>

\* print.py 326-334
Login ==
    /\ pc = "m_login"
    /\ \E resp \in LoginResponses :
        LET token == get_homebox_api_token(resp)
            next == LoginNext(token)
        IN  /\ api_token' = token
            /\ last_response' = [of |-> "login", resp |-> resp]
            /\ Goto(next)
            /\ stdout' = IF next = "exit1"
                         THEN stdout \o <<Line("login_failed", "")>> ELSE stdout
            /\ stage_log' = IF Truthy(token) THEN stage_log
                            ELSE Append(stage_log, Stage("source", FALSE))
    /\ ops' = Append(ops, Op("login", <<>>))
    /\ UNCHANGED <<inputVars, asset_record_id, item_details, renderVars, sendVars>>

\* print.py 337-340
Search ==
    /\ pc = "m_search"
    /\ \E resp \in SearchResponses :
        LET record_id == get_asset_record_id(resp)
            next == SearchNext(record_id)
        IN  /\ asset_record_id' = record_id
            /\ last_response' = [of |-> "search", resp |-> resp]
            /\ Goto(next)
            /\ stdout' = IF next = "exit1"
                         THEN stdout \o <<Line("search_failed", "")>> ELSE stdout
            /\ stage_log' = IF Truthy(record_id) THEN stage_log
                            ELSE Append(stage_log, Stage("source", FALSE))
    /\ ops' = Append(ops, Request("search", argv[3], api_token))
    /\ UNCHANGED <<inputVars, api_token, item_details, renderVars, sendVars>>

\* print.py 342-349
Fetch ==
    /\ pc = "m_fetch"
    /\ \E resp \in FetchResponses :
        LET details == get_asset_details(resp)
            next == FetchNext(details)
        IN  /\ item_details' = details
            /\ last_response' = [of |-> "fetch", resp |-> resp]
            /\ Goto(next)
            /\ stdout' = IF next = "exit1"
                         THEN stdout \o <<Line("fetch_failed", "")>> ELSE stdout
            /\ stage_log' = Append(stage_log,
                                   Stage("source", details.ok /\ ItemTruthy(details.item)))
    /\ ops' = Append(ops, Request("fetch", PyStr(asset_record_id), api_token))
    /\ UNCHANGED <<inputVars, api_token, asset_record_id, renderVars, sendVars>>

\* print.py 351-352, print-plant.py 152-160
Normalize ==
    /\ pc = "m_context"
    /\ LET context == IF script = "plant"
                      THEN [ok |-> TRUE, ctx |-> PlantContext(argv)]
                      ELSE prepare_template_context(item_details.item)
       IN  /\ template_context' = context
           /\ Goto(ContextNext(context))
           /\ stage_log' = Append(stage_log, Stage("normalize", context.ok))
    /\ UNCHANGED <<inputVars, ops, stdout, fetchVars, template, rendered, sendVars>>

\* print.py 354-370, print-plant.py 162-176, up to the call of
\* _send_zpl_bytes_to_cups; exists is os.path.exists inside render_zpl_template
Render ==
    /\ pc = "m_render"
    /\ \E exists \in BOOLEAN, tpl \in Templates :
        /\ ~exists => tpl = NoTemplate
        /\ LET r == render_zpl_template(argv[2], exists, tpl, template_context.ctx)
               next == RenderNext(r)
               jid == JobIdentifier(script, template_context.ctx)
               call == next = "s_connect" /\ jid.ok
           IN  /\ template' = tpl
               /\ rendered' = r
               /\ ops' = ops \o <<Op("exists", argv[2])>>
                         \o (IF exists THEN <<Op("read_template", argv[2])>> ELSE <<>>)
               /\ Goto(IF next = "s_connect" /\ ~jid.ok THEN "exit1" ELSE next)
               /\ zpl_data_bytes' = IF call THEN Utf8Encode(r.text) ELSE zpl_data_bytes
               /\ job_title_identifier' = IF call THEN jid.id ELSE job_title_identifier
               /\ stdout' = stdout
                     \o (IF r.ok THEN <<>> ELSE <<Line("render_error", "")>>)
                     \o (IF next = "exit1" THEN <<Line("render_failed", "")>> ELSE <<>>)
               /\ stage_log' = Append(stage_log, Stage("render", r.ok))
    /\ UNCHANGED <<inputVars, fetchVars, template_context, job_title, conn, printers,
                   tmpfile, temp_file_path, print_outcome, retval, send_return,
                   remove_log, phases>>

\* the call returned; main ends and the interpreter exits with status 0
MainReturn ==
    /\ pc = "m_return"
    /\ pc' = "done"
    /\ exit_code' = 0
    /\ UNCHANGED <<inputVars, ops, stdout, fetchVars, renderVars, sendVars, stage_log>>

(***************************************************************************)
(* _send_zpl_bytes_to_cups, print.py 250-307 and print-plant.py 75-132     *)
(***************************************************************************)
\* 256-260: cups.setServer, cups.setPort, cups.Connection
SendConnect ==
    /\ pc = "s_connect"
    /\ \E outcome \in {"ok", "runtime_error"} :
        LET next == ConnectNext(outcome)
        IN  /\ conn' = IF outcome = "ok" THEN "ok" ELSE "failed"
            /\ pc' = next
            /\ retval' = IF next = "s_finally" THEN "false" ELSE retval
            /\ phases' = <<"connect">> \o (IF next = "s_finally" THEN <<"failed">> ELSE <<>>)
            /\ stdout' = IF outcome = "ok" THEN stdout
                         ELSE Append(stdout, Line("runtime_error", ""))
    /\ ops' = Append(ops, Op("connect", <<>>))
    /\ UNCHANGED <<inputVars, exit_code, fetchVars, renderVars, zpl_data_bytes,
                   job_title_identifier, job_title, printers, tmpfile, temp_file_path,
                   print_outcome, send_return, remove_log, stage_log>>

\* 262-280: conn.getPrinters(), the two queue checks, options and job_title
SendGetPrinters ==
    /\ pc = "s_printers"
    /\ \/ \E names \in PrinterLists :
            LET next == PrintersNext(names)
            IN  /\ printers' = [known |-> TRUE, names |-> names]
                /\ pc' = next
                /\ retval' = IF next = "s_finally" THEN "false" ELSE retval
                /\ phases' = Append(phases, IF next = "s_finally" THEN "failed"
                                            ELSE "queue_validated")
                /\ stdout' = stdout \o QueueMessages(names)
                /\ job_title' = IF next = "s_finally" THEN job_title
                                ELSE JobTitle(job_title_identifier)
       \/ /\ printers' = printers
          /\ pc' = "s_finally"
          /\ retval' = "false"
          /\ phases' = Append(phases, "failed")
          /\ stdout' = Append(stdout, Line("ipp_error", PRINTER_QUEUE_NAME))
          /\ job_title' = job_title
    /\ ops' = Append(ops, Op("getPrinters", <<>>))
    /\ UNCHANGED <<inputVars, exit_code, fetchVars, renderVars, zpl_data_bytes,
                   job_title_identifier, conn, tmpfile, temp_file_path, print_outcome,
                   send_return, remove_log, stage_log>>

\* 282-284: the with block around NamedTemporaryFile
SendStage ==
    /\ pc = "s_stage"
    /\ \E outcome \in StageOutcomes, part \in {0, Len(zpl_data_bytes) \div 2} :
        /\ outcome \in {"ok", "create_error"} => part = 0
        /\ LET next == StageNext(outcome)
           IN  /\ tmpfile' = StagedFile(outcome, zpl_data_bytes, part)
               /\ temp_file_path' = StagedPath(outcome)
               /\ pc' = next
               /\ retval' = IF next = "s_finally" THEN "false" ELSE retval
               /\ phases' = Append(phases, IF next = "s_finally" THEN "failed" ELSE "staged")
               /\ ops' = ops \o <<Op("mkstemp", <<>>)>>
                         \o (IF outcome = "create_error" THEN <<>>
                             ELSE <<Op("write", <<>>)>>)
               /\ stdout' = IF outcome = "ok" THEN stdout
                            ELSE Append(stdout, Line("unexpected_error", ""))
    /\ UNCHANGED <<inputVars, exit_code, fetchVars, renderVars, zpl_data_bytes,
                   job_title_identifier, job_title, conn, printers, print_outcome,
                   send_return, remove_log, stage_log>>

\* 286-290: conn.printFile and the return or except clause that follows it
SendPrintFile ==
    /\ pc = "s_print"
    /\ \E outcome \in {"job", "ipp_error", "runtime_error"} :
        /\ print_outcome' = outcome
        /\ retval' = PrintResult(outcome)
        /\ phases' = phases \o <<"submitted",
                                 IF PrintResult(outcome) = "true" THEN "success"
                                 ELSE "failed">>
        /\ stdout' = Append(stdout, Line(IF outcome = "job" THEN "submitted" ELSE outcome,
                                         PRINTER_QUEUE_NAME))
    /\ ops' = Append(ops, Op("printFile", PrintFileCall(temp_file_path, job_title)))
    /\ pc' = "s_finally"
    /\ UNCHANGED <<inputVars, exit_code, fetchVars, renderVars, zpl_data_bytes,
                   job_title_identifier, job_title, conn, printers, tmpfile,
                   temp_file_path, send_return, remove_log, stage_log>>

\* 302-307: the finally block, then the pending return
SendFinally ==
    /\ pc = "s_finally"
    /\ \E outcome \in {"ok", "oserror"} :
        LET remove == ShouldRemove(temp_file_path, tmpfile.exists)
        IN  /\ ~remove => outcome = "ok"
            /\ remove_log' = IF remove THEN Append(remove_log, outcome) ELSE remove_log
            /\ ops' = IF remove THEN Append(ops, Op("remove", <<>>)) ELSE ops
            /\ tmpfile' = IF remove /\ outcome = "ok"
                          THEN [tmpfile EXCEPT !.exists = FALSE] ELSE tmpfile
            /\ stdout' = IF remove /\ outcome = "oserror"
                         THEN Append(stdout, Line("cleanup_warning", "")) ELSE stdout
            /\ send_return' = FinallyReturn(retval, IF remove THEN outcome ELSE "none")
            /\ stage_log' = Append(stage_log,
                                   Stage("submit", FinallyReturn(retval, outcome) = "true"))
    /\ phases' = Append(phases, "cleaned")
    /\ pc' = "m_return"
    /\ UNCHANGED <<inputVars, exit_code, fetchVars, renderVars, zpl_data_bytes,
                   job_title_identifier, job_title, conn, printers, temp_file_path,
                   print_outcome, retval>>

Next ==
    \/ CheckEnvVars
    \/ ArgCheck
    \/ TemplateCheck
    \/ Login
    \/ Search
    \/ Fetch
    \/ Normalize
    \/ Render
    \/ SendConnect
    \/ SendGetPrinters
    \/ SendStage
    \/ SendPrintFile
    \/ SendFinally
    \/ MainReturn

Spec == Init /\ [][Next]_vars

TypeOK ==
    /\ exit_code \in {-1, 0, 1}
    /\ pc \in {"m_env", "m_args", "m_template", "m_login", "m_search", "m_fetch",
               "m_context", "m_render", "s_connect", "s_printers", "s_stage",
               "s_print", "s_finally", "m_return", "done"}
    /\ (pc = "done") = (exit_code # -1)
    /\ send_return \in {"none", "true", "false"}

(***************************************************************************)
(* Properties.                                                             *)
(***************************************************************************)
Count(name) == Cardinality({i \in DOMAIN ops : ops[i].op = name})
Did(name) == Count(name) > 0
Printed(kind) == \E i \in DOMAIN stdout : stdout[i].kind = kind
\* _send_zpl_bytes_to_cups has returned to main
Returned == send_return # "none"
TargetListed == PRINTER_QUEUE_NAME \in Range(printers.names)

\* C1 as stated: when the payload was staged (temp_file_path recorded), the
\* file is removed exactly once and does not exist when the call returns.
C1_RemovedExactlyOnce ==
    (Returned /\ temp_file_path # "") =>
        /\ Cardinality({i \in DOMAIN remove_log : remove_log[i] = "ok"}) = 1
        /\ ~tmpfile.exists

\* C1 amended: when the payload was staged, os.remove is called on the file
\* exactly once before the call returns, whether printFile returned a job id
\* or raised, and the file is gone on return unless that one call raised
\* OSError.
C1_RemoveAttemptedOnce ==
    (Returned /\ temp_file_path # "") =>
        /\ Len(remove_log) = 1
        /\ Count("remove") = 1
        /\ tmpfile.exists = (remove_log[1] = "oserror")

C1_Witness ==
    /\ Returned
    /\ temp_file_path # ""
    /\ print_outcome = "ipp_error"
    /\ remove_log = <<"ok">>
    /\ ~tmpfile.exists

\* C2: the exit status is zero only when the job was submitted, and non-zero
\* whenever a stage failed, spooler connection, queue discovery and
\* submission included.
C2_ExitStatus == pc = "done" => ((exit_code = 0) = (send_return = "true"))

\* C3: every temporary file the call created gets a release attempt before
\* the call returns, also when tmp.write raised.
C3_ReleaseAttempted == (Returned /\ tmpfile.created) => Len(remove_log) >= 1

\* C4: when os.remove raises OSError the call still returns, only a warning
\* is printed, and the result is the one decided before the finally block:
\* True exactly when printFile returned a job id.
C4_RemoveFailureKeepsResult ==
    (remove_log # <<>> /\ remove_log[Len(remove_log)] = "oserror") =>
        /\ Returned
        /\ pc \in {"m_return", "done"}
        /\ send_return = retval
        /\ send_return = (IF print_outcome = "job" THEN "true" ELSE "false")
        /\ stdout[Len(stdout)].kind = "cleanup_warning"
        /\ exit_code # 1

C4_Witness ==
    /\ remove_log = <<"oserror">>
    /\ print_outcome = "job"
    /\ send_return = "true"

\* C5: after a failed connection the call fails and has neither enumerated
\* queues, nor created a temporary file, nor called printFile.
C5_ConnectFailureIsTerminal ==
    conn = "failed" =>
        /\ retval = "false"
        /\ Returned => send_return = "false"
        /\ ~Did("getPrinters") /\ ~Did("mkstemp") /\ ~Did("printFile")
        /\ ~printers.known
        /\ ~tmpfile.created

C5_Witness == conn = "failed" /\ send_return = "false" /\ pc = "done"

\* the names printed after "Available printer queues on this server:"
SurfacedQueues ==
    LET lines == SelectSeq(stdout, LAMBDA l : l.kind = "available")
    IN  [i \in DOMAIN lines |-> lines[i].arg]

\* C6: an empty enumeration and an enumeration without the target queue both
\* fail before staging and printFile; they print different errors, and in the
\* second case the printed queue list is the enumeration, name by name.
C6_QueueValidation ==
    /\ (printers.known /\ ~TargetListed) =>
          /\ retval = "false"
          /\ Returned => send_return = "false"
          /\ ~Did("mkstemp") /\ ~Did("printFile") /\ ~tmpfile.created
    /\ (printers.known /\ printers.names = <<>>) =>
          /\ Printed("no_printers") /\ ~Printed("queue_not_found")
          /\ SurfacedQueues = <<>>
    /\ (printers.known /\ printers.names # <<>> /\ ~TargetListed) =>
          /\ Printed("queue_not_found") /\ ~Printed("no_printers")
          /\ SurfacedQueues = printers.names

C6_Witness ==
    /\ printers.known
    /\ Len(printers.names) = 2
    /\ ~TargetListed
    /\ Returned

PhaseRank(ph) ==
    CASE ph = "connect" -> 1
      [] ph = "queue_validated" -> 2
      [] ph = "staged" -> 3
      [] ph = "submitted" -> 4
      [] ph \in {"success", "failed"} -> 5
      [] OTHER -> 6

\* the operations of the call, in the order of the phases they belong to
SendOpRank(name) ==
    CASE name = "connect" -> 1
      [] name = "getPrinters" -> 2
      [] name = "mkstemp" -> 3
      [] name = "write" -> 4
      [] name = "printFile" -> 5
      [] name = "remove" -> 6
      [] OTHER -> 0

\* C7: the phases of one call are entered in the order connect, queue
\* validated, staged, submitted, success or failed, cleaned, none twice;
\* staging happens only with the target queue in the enumeration, printFile
\* only after staging, and the cleanup phase is the last one on every path.
C7_PhaseOrder ==
    /\ \A i, j \in DOMAIN phases : i < j => PhaseRank(phases[i]) < PhaseRank(phases[j])
    /\ \A i, j \in DOMAIN ops :
          (i < j /\ SendOpRank(ops[i].op) > 0) => SendOpRank(ops[i].op) < SendOpRank(ops[j].op)
    /\ (Did("mkstemp") \/ "staged" \in Range(phases)) =>
          (printers.known /\ TargetListed /\ "queue_validated" \in Range(phases))
    /\ Did("printFile") =>
          /\ "staged" \in Range(phases)
          /\ temp_file_path # ""
          /\ tmpfile.created
    /\ Returned =>
          /\ phases[Len(phases)] = "cleaned"
          /\ phases[1] = "connect"
          /\ \E i \in DOMAIN phases : PhaseRank(phases[i]) = 5
    /\ ("cleaned" \in Range(phases)) => Returned

C7_Witness ==
    /\ Returned
    /\ phases = <<"connect", "queue_validated", "staged", "submitted", "success", "cleaned">>

StageRank(name) ==
    CASE name = "source" -> 1
      [] name = "normalize" -> 2
      [] name = "render" -> 3
      [] OTHER -> 4

StageFailed(name) ==
    \E i \in DOMAIN stage_log : stage_log[i].stage = name /\ ~stage_log[i].ok

\* C8: main runs source adaptation, normalization, rendering and submission
\* in this order, each only after the previous one succeeded; nothing is
\* rendered after a failed source stage and the spooler is not touched
\* after a failed render.
C8_StageOrder ==
    /\ \A i \in DOMAIN stage_log :
          /\ StageRank(stage_log[i].stage) = i
          /\ i < Len(stage_log) => stage_log[i].ok
    /\ (StageFailed("source") \/ StageFailed("normalize")) =>
          /\ ~Did("read_template") /\ ~rendered.ok
          /\ ~Did("connect")
    /\ (Did("read_template") \/ rendered.ok) => (Len(stage_log) >= 3 /\ template_context.ok)
    /\ StageFailed("render") =>
          ~Did("connect") /\ ~Did("mkstemp") /\ ~Did("printFile")
    /\ Did("connect") => (Len(stage_log) >= 3 /\ rendered.ok)
    /\ (script = "homebox" /\ template_context.ok) =>
          (item_details.ok /\ Did("fetch") /\ Did("search") /\ Did("login"))

C8_Witness ==
    /\ script = "homebox"
    /\ Len(stage_log) = 4
    /\ stage_log[4].ok

ExternalOperations == {"login", "search", "fetch", "connect", "getPrinters", "printFile"}

\* C9: login, tag search, record fetch, spooler connection, queue
\* enumeration and printFile are each attempted at most once per invocation,
\* and a failed one (a timeout included) is followed by no further external
\* operation.
C9_NoRetry ==
    /\ \A name \in ExternalOperations : Count(name) <= 1
    /\ (Did("login") /\ ~Truthy(api_token)) => ops[Len(ops)].op = "login"
    /\ (Did("search") /\ ~Truthy(asset_record_id)) => ops[Len(ops)].op = "search"
    /\ (Did("fetch") /\ ~item_details.ok) => ops[Len(ops)].op = "fetch"
    /\ conn = "failed" => ops[Len(ops)].op = "connect"
    /\ (Did("getPrinters") /\ ~printers.known) => ops[Len(ops)].op = "getPrinters"
    /\ (Did("printFile") /\ print_outcome # "job") =>
          \A i \in DOMAIN ops :
              (\E j \in DOMAIN ops : j < i /\ ops[j].op = "printFile") => ops[i].op = "remove"

C9_Witness ==
    /\ pc = "done"
    /\ Count("login") = 1
    /\ ~Truthy(api_token)
    /\ exit_code = 1

\* C10: print-plant.py with an argument count other than 8 exits with a
\* non-zero status before any file or network access; with 8 the six values
\* are bound in order to scientific, afr, eng, sep, region, url.
C10_LiteralArguments ==
    script = "plant" =>
        /\ (Len(argv) # 8 /\ pc # "m_args") =>
              (pc = "done" /\ exit_code = 1 /\ ops = <<>> /\ ~template_context.ok)
        /\ (Len(argv) = 8 /\ pc = "done") => ops # <<>>
        /\ template_context.ok =>
              /\ Len(argv) = 8
              /\ DOMAIN template_context.ctx =
                    {"scientific", "afr", "eng", "sep", "region", "url"}
              /\ template_context.ctx["scientific"] = Str(argv[3])
              /\ template_context.ctx["afr"] = Str(argv[4])
              /\ template_context.ctx["eng"] = Str(argv[5])
              /\ template_context.ctx["sep"] = Str(argv[6])
              /\ template_context.ctx["region"] = Str(argv[7])
              /\ template_context.ctx["url"] = Str(argv[8])

C10_Witness ==
    /\ script = "plant"
    /\ Len(argv) = 9
    /\ pc = "done"
    /\ exit_code = 1
    /\ ops = <<>>

(***************************************************************************)
(* Environment pre-flight, login, search and fetch.                        *)
(***************************************************************************)
\* the variables check_env_vars cannot use: not set, or set to ''
AbsentVars == {v \in EnvVars : environ[v] # "set"}
\* the names listed after "the following required environment variables"
ReportedVars ==
    SelectSeq(stdout, LAMBDA l : l.kind = "missing_var")

\* C11: in print.py, for every subset of the five required environment
\* variables that is absent (not set, or set to the empty string): when the
\* subset is non-empty main exits with status 1 before any argument, file or
\* network access and reports exactly the absent names, each once; when it
\* is empty nothing is reported and the run goes on to the argument check.
C11_EnvPreflight ==
    (script = "homebox" /\ pc # "m_env") =>
        /\ Len(ReportedVars) = Cardinality(AbsentVars)
        /\ {ReportedVars[i].arg : i \in DOMAIN ReportedVars} = AbsentVars
        /\ AbsentVars # {} =>
              /\ pc = "done"
              /\ exit_code = 1
              /\ ops = <<>>
              /\ Printed("missing_env")
              /\ ~Printed("usage")
              /\ stage_log = <<>>
        /\ AbsentVars = {} =>
              /\ ~Printed("missing_env")
              /\ pc = "done" => (Printed("usage") \/ ops # <<>>)

C11_Witness ==
    /\ script = "homebox"
    /\ pc = "done"
    /\ exit_code = 1
    /\ Len(argv) = 1
    /\ environ["HOMEBOX_API_URL"] = "unset"
    /\ environ["OWNER_TEXT"] = "empty"
    /\ Cardinality(AbsentVars) = 2
    /\ Len(ReportedVars) = 2

\* the login response is a failure: transport error, error status, a body
\* that is not JSON, or a JSON body with no usable token
LoginFailed(resp) ==
    \/ resp.kind \in ErrorKinds
    \/ ~Truthy(Get(resp.token, None))

\* C12: when the login request fails in transport, returns a non-success
\* status, an unparsable body or a body without a token, main exits with
\* status 1 without any tag search or item fetch; otherwise the token of the
\* body is sent unchanged, with no scheme prefix, as the Authorization value
\* of the search and of the fetch.
C12_Authentication ==
    /\ (last_response.of = "login" /\ LoginFailed(last_response.resp)) =>
          /\ pc = "done"
          /\ exit_code = 1
          /\ Printed("login_failed")
          /\ ~Did("search")
          /\ ~Did("fetch")
    /\ (last_response.of = "login" /\ ~LoginFailed(last_response.resp)) =>
          /\ pc = "m_search"
          /\ api_token = last_response.resp.token
    /\ (Did("search") \/ Did("fetch")) =>
          /\ Count("login") = 1
          /\ ~Printed("login_failed")
          /\ api_token \in TokenValues
          /\ Truthy(api_token)
    /\ \A i \in DOMAIN ops :
          ops[i].op \in {"search", "fetch"} => ops[i].auth = api_token

C12_Witness ==
    /\ Count("search") = 1
    /\ Count("fetch") = 1
    /\ \A i \in DOMAIN ops :
          ops[i].op \in {"search", "fetch"} => ops[i].auth = Str(<<116, 50>>)
    /\ api_token = Str(<<116, 50>>)
    /\ pc = "m_context"

\* a refused login: the run ends there
C12_WitnessRefused ==
    /\ last_response.of = "login"
    /\ last_response.resp.kind = "status"
    /\ pc = "done"
    /\ exit_code = 1

\* the search found the asset: a JSON body reporting at least one match whose
\* first item carries an identifier
SearchFound(resp) ==
    /\ resp.kind = "json"
    /\ resp.total > 0
    /\ resp.items # <<>>
    /\ Truthy(Get(resp.items[1], None))

\* the state right after the search, and every fetch ever made
C13_AfterSearch ==
    /\ last_response.of = "search" =>
          /\ ~Did("fetch")
          /\ SearchFound(last_response.resp) =>
                /\ pc = "m_fetch"
                /\ asset_record_id = last_response.resp.items[1]
          /\ ~SearchFound(last_response.resp) =>
                /\ pc = "done"
                /\ exit_code = 1
                /\ Printed("search_failed")
    /\ Printed("search_failed") => ~Did("fetch")
    /\ Count("fetch") <= 1
    /\ \A i \in DOMAIN ops :
          ops[i].op = "fetch" =>
              /\ i > 1
              /\ ops[i - 1].op = "search"
              /\ ops[i].arg = PyStr(asset_record_id)
    /\ (last_response.of = "fetch" /\ last_response.resp.kind \in ErrorKinds) =>
          /\ pc = "done"
          /\ exit_code = 1
          /\ Printed("fetch_failed")
          /\ ~template_context.ok
          /\ \A i \in DOMAIN stage_log : stage_log[i].stage # "normalize"

\* the step that issues the fetch: it follows a search that found the asset,
\* and it asks for the identifier of the first match
C13_FetchStep ==
    Count("fetch")' > Count("fetch") =>
        /\ last_response.of = "search"
        /\ SearchFound(last_response.resp)
        /\ ops'[Len(ops')].op = "fetch"
        /\ ops'[Len(ops')].arg = PyStr(last_response.resp.items[1])

\* C13: the record fetch is made only for the identifier of the first match
\* of the tag search: when the search fails or returns no match (or a first
\* match without identifier) no fetch is made and the run ends with status 1
\* as record-not-found; when it returns one or more matches the fetch is made
\* with the first match's identifier; a failed fetch ends the run with
\* status 1 before normalization.
C13_FetchFirstMatch == []C13_AfterSearch /\ [][C13_FetchStep]_vars

\* two matches were returned and the second-listed identifier was not taken
C13_Witness ==
    /\ pc = "m_fetch"
    /\ last_response.of = "search"
    /\ last_response.resp.total = 2
    /\ last_response.resp.items = <<Str(<<105, 50>>), Str(<<105, 49>>)>>
    /\ asset_record_id = Str(<<105, 50>>)

C13_WitnessFetched ==
    /\ last_response.of = "fetch"
    /\ last_response.resp.kind = "json"
    /\ Did("fetch")
    /\ pc = "m_context"

(***************************************************************************)
(* Normalization.                                                          *)
(***************************************************************************)
\* prepare_template_context has been called on the fetched record
Normalized ==
    /\ script = "homebox"
    /\ \E i \in DOMAIN stage_log : stage_log[i].stage = "normalize"

\* the record's value of an optional field, or the "N/A" sentinel
ValueOrNA(key) == {item_details.item[key], Str(NA)}

\* C14: prepare_template_context never raises for a fetched item record:
\* whatever optional fields (description, serialNumber, location,
\* modelNumber, purchaseFrom, purchaseTime) are absent, null or empty, it
\* returns a context in which each corresponding field holds the record's
\* value (truncated as the policy says) or "N/A".
C14_NeverRaises ==
    Normalized =>
        /\ template_context.ok
        /\ template_context.ctx["model_number"] \in ValueOrNA("modelNumber")
        /\ template_context.ctx["purchase_from"] \in ValueOrNA("purchaseFrom")
        /\ template_context.ctx["purchase_date"] \in ValueOrNA("purchaseTime")
        /\ template_context.ctx["location_name"] \in ValueOrNA("location.name")
        /\ template_context.ctx["description"] \in
              {Str(Head_(PyStr(v), 28)) : v \in ValueOrNA("description")}
        /\ template_context.ctx["serial_number"] \in
              {Str(Tail_(PyStr(v), 10)) : v \in ValueOrNA("serialNumber")}

\* what the defaulting policy asks of one field: the record's value when it
\* is present and non-empty, "N/A" when it is absent or empty
Defaulted(v) == IF v = Absent \/ v = Str(<<>>) THEN Str(NA) ELSE v

\* C15: in the context built from a fetched record, location_name,
\* model_number, purchase_from and purchase_date equal the record's value
\* when it is present and non-empty, and "N/A" both when the field is absent
\* and when it is present but empty.
C15_EmptyDefaults ==
    (Normalized /\ template_context.ok) =>
        /\ template_context.ctx["model_number"] =
              Defaulted(item_details.item["modelNumber"])
        /\ template_context.ctx["purchase_from"] =
              Defaulted(item_details.item["purchaseFrom"])
        /\ template_context.ctx["purchase_date"] =
              Defaulted(item_details.item["purchaseTime"])
        /\ template_context.ctx["location_name"] =
              Defaulted(IF item_details.item["location"] = Absent THEN Absent
                        ELSE item_details.item["location.name"])

\* the part of C15 the code satisfies: absent fields take "N/A", present
\* non-empty ones keep their value
C15_AbsentDefaults ==
    (Normalized /\ template_context.ok) =>
        \A p \in {<<"model_number", "modelNumber">>, <<"purchase_from", "purchaseFrom">>,
                  <<"purchase_date", "purchaseTime">>} :
            LET v == item_details.item[p[2]]
            IN  /\ v = Absent => template_context.ctx[p[1]] = Str(NA)
                /\ v # Absent => template_context.ctx[p[1]] = v

\* the first min(28, n) characters of a description of length n
First28(d) == SubSeq(d, 1, Min(28, Len(d)))
\* the last min(10, m) characters of a serial number of length m
Last10(m) == SubSeq(m, Len(m) - Min(10, Len(m)) + 1, Len(m))

\* description and serial_number are truncated, the plain fields are not
C16_FieldTruncation ==
    (Normalized /\ template_context.ok) =>
        LET item == item_details.item
            ctx == template_context.ctx
        IN  /\ ctx["description"] = Str(First28(Get(item["description"], Str(NA)).s))
            /\ ctx["serial_number"] = Str(Last10(Get(item["serialNumber"], Str(NA)).s))
            /\ Len(ctx["description"].s) <= 28
            /\ Len(ctx["serial_number"].s) <= 10
            /\ ctx["asset_id_tag"] = Get(item["assetId"], Str(NA))
            /\ ctx["name"] = Get(item["name"], Str(NA))
            /\ ctx["model_number"] = Get(item["modelNumber"], Str(NA))
            /\ ctx["purchase_from"] = Get(item["purchaseFrom"], Str(NA))
            /\ ctx["purchase_date"] = Get(item["purchaseTime"], Str(NA))
            /\ ctx["purchase_price"] = Get(item["purchasePrice"], Num(0))

\* the summary line of the policy table: tag, model, truncated serial,
\* seller, price and purchase date
SummaryOfContext(ctx) ==
    PyStr(ctx["asset_id_tag"]) \o SepBar \o PyStr(ctx["model_number"])
    \o SepSerial \o PyStr(ctx["serial_number"])
    \o SepSeller \o PyStr(ctx["purchase_from"])
    \o SepZar \o PyStr(ctx["purchase_price"])
    \o SepOn \o PyStr(ctx["purchase_date"])

\* C16: for every record the context's description is the first min(28, n)
\* characters of the record's description and its serial_number the last
\* min(10, m) characters of the record's serial number; the other fields are
\* not affected, and the summary_line is the policy table's concatenation of
\* tag, model, truncated serial, seller, price and purchase date.
C16_Truncation ==
    /\ C16_FieldTruncation
    /\ (Normalized /\ template_context.ok) =>
          template_context.ctx["summary_line"] =
              Str(SummaryOfContext(template_context.ctx))

\* a 30-character description and a 12-character serial number were cut
C16_LongValues ==
    /\ Normalized
    /\ template_context.ok
    /\ Len(item_details.item["description"].s) = 30
    /\ Len(template_context.ctx["description"].s) = 28
    /\ Len(item_details.item["serialNumber"].s) = 12
    /\ Len(template_context.ctx["serial_number"].s) = 10

(***************************************************************************)
(* Rendering.                                                              *)
(***************************************************************************)
\* render_zpl_template has returned, with or without a text
RenderDone(ok) == \E i \in DOMAIN stage_log : stage_log[i] = Stage("render", ok)

\* C17: render_zpl_template tests that the template exists before it loads
\* and binds it, and rendering is all-or-nothing: when the template is
\* missing or rendering raises, the renderer yields no output at all and main
\* exits with status 1 without connecting to the spooler, staging a payload
\* or submitting a job.
C17_RenderAllOrNothing ==
    /\ \A i \in DOMAIN ops :
          ops[i].op = "read_template" => (i > 1 /\ ops[i - 1].op = "exists")
    /\ (RenderDone(TRUE) \/ RenderDone(FALSE)) =>
          (~Did("read_template") => RenderDone(FALSE))
    /\ RenderDone(FALSE) =>
          /\ rendered = [ok |-> FALSE, text |-> <<>>]
          /\ Printed("render_error")
          /\ pc = "done"
          /\ exit_code = 1
          /\ zpl_data_bytes = <<>>
          /\ phases = <<>>
          /\ \A name \in {"connect", "getPrinters", "mkstemp", "write", "printFile"} :
                ~Did(name)

\* the template exists but rendering it raised
C17_Witness ==
    /\ RenderDone(FALSE)
    /\ Did("read_template")
    /\ script = "plant"
    /\ pc = "done"
    /\ exit_code = 1

\* the template vanished between the check of main and the renderer
C17_WitnessMissing ==
    /\ RenderDone(FALSE)
    /\ Count("exists") = 2
    /\ ~Did("read_template")
    /\ pc = "done"

\* the template that was rendered refers to a name the context does not
\* hold, without a default filter
UndefinedReference ==
    /\ RenderDone(TRUE) \/ RenderDone(FALSE)
    /\ \E i \in DOMAIN template.body :
          /\ template.body[i].kind = "var"
          /\ ~template.body[i].default
          /\ template.body[i].name \notin DOMAIN template_context.ctx

\* C18: rendering a template that refers to a variable which is not in the
\* context, with no default filter applied, fails with a render error
\* instead of producing a payload, so no job is submitted for it.
C18_UndefinedVariableFails ==
    UndefinedReference =>
        /\ ~rendered.ok
        /\ rendered.text = <<>>
        /\ Printed("render_error")
        /\ ~Did("printFile")

\* what the code does instead: the undefined name prints as the empty
\* string, the render succeeds and the label is submitted
C18_UndefinedPrinted ==
    /\ UndefinedReference
    /\ rendered.ok
    /\ rendered.text = XA \o XZ
    /\ Did("printFile")
    /\ script = "homebox"

\* every variable of the rendered template is held by the context
AllVariablesPresent ==
    \A i \in DOMAIN template.body :
        template.body[i].kind = "var" =>
            template.body[i].name \in DOMAIN template_context.ctx

\* C19: for every template and context in which every template variable is
\* present, the render succeeds and main hands the rendered output, UTF-8
\* encoded and otherwise unchanged, to exactly one submission attempt; this
\* holds for every rendered output, an empty one included, and main reports
\* a render failure only when the renderer failed.
C19_RenderedIsSubmitted ==
    /\ Printed("render_failed") => RenderDone(FALSE)
    /\ (RenderDone(TRUE) /\ AllVariablesPresent /\ template.loadable) =>
          /\ rendered.ok
          /\ zpl_data_bytes = Utf8Encode(rendered.text)
          /\ pc = "s_connect" \/ Count("connect") = 1

\* what the code does with an empty output: the render succeeded, and main
\* reports a failure and exits with status 1 without a submission attempt
C19_EmptyOutputRejected ==
    /\ RenderDone(TRUE)
    /\ AllVariablesPresent
    /\ rendered = [ok |-> TRUE, text |-> <<>>]
    /\ Printed("render_failed")
    /\ ~Printed("render_error")
    /\ ~Did("connect")
    /\ pc = "done"
    /\ exit_code = 1

\* a non-empty output reaches the spooler as its UTF-8 encoding
C19_NonEmptySubmitted ==
    /\ RenderDone(TRUE)
    /\ AllVariablesPresent
    /\ rendered.text # <<>>
    /\ \E i \in DOMAIN rendered.text : rendered.text[i] > 127
    /\ zpl_data_bytes = Utf8Encode(rendered.text)
    /\ Len(zpl_data_bytes) > Len(rendered.text)
    /\ Count("printFile") = 1

(***************************************************************************)
(* Submission.                                                             *)
(***************************************************************************)
\* t holds s as a run of consecutive characters
Contains(t, s) ==
    \E k \in 0..(Len(t) - Len(s)) : SubSeq(t, k + 1, k + Len(s)) = s

\* "Homebox ZPL Print"
TitlePrefix == <<72, 111, 109, 101, 98, 111, 120, 32, 90, 80, 76, 32, 80, 114,
                 105, 110, 116>>

\* the prefix alone for an empty identifier, else prefix, ": ", identifier
TitleFor(ident) ==
    IF ident = <<>> THEN TitlePrefix ELSE TitlePrefix \o <<58, 32>> \o ident

\* remote mode: the asset tag, then " (name)" when the context has a
\* non-empty name other than "N/A"
AssetIdentifier(ctx) ==
    (IF Truthy(ctx["asset_id_tag"]) THEN PyStr(ctx["asset_id_tag"]) ELSE <<>>)
    \o (IF Truthy(ctx["name"]) /\ ctx["name"] # Str(<<78, 47, 65>>)
        THEN <<32, 40>> \o PyStr(ctx["name"]) \o <<41>>
        ELSE <<>>)

\* C20: every call of printFile names the configured queue, passes the raw
\* octet-stream options and a job title made of the prefix "Homebox ZPL
\* Print" and the caller's job identifier; in print-plant.py the identifier
\* is the scientific value, so the title contains it whatever it is; in
\* print.py it is the asset tag, followed by the name in parentheses when the
\* name is present and not "N/A".
C20_PrintFileArguments ==
    \A i \in DOMAIN ops :
        ops[i].op = "printFile" =>
            LET call == ops[i].arg
            IN  /\ call.printer = "Zebra-ZD421-203dpi-ZPL"
                /\ call.options = [document_format |-> "application/octet-stream",
                                   raw |-> "true"]
                /\ call.filename = "tmp.zpl"
                /\ SubSeq(call.title, 1, Len(TitlePrefix)) = TitlePrefix
                /\ script = "plant" =>
                      /\ call.title = TitleFor(argv[3])
                      /\ Contains(call.title, argv[3])
                /\ script = "homebox" =>
                      call.title = TitleFor(AssetIdentifier(template_context.ctx))

\* print-plant.py submitted a label whose scientific value is "R&e-acute"
C20_Witness ==
    /\ script = "plant"
    /\ Len(argv) = 8
    /\ argv[3] = <<82, 38, 233>>
    /\ Count("printFile") = 1
    /\ \E i \in DOMAIN ops :
          /\ ops[i].op = "printFile"
          /\ ops[i].arg.title = TitlePrefix \o <<58, 32, 82, 38, 233>>

\* print.py submitted a label titled with the tag and the name in parentheses
C20_WitnessRemote ==
    /\ script = "homebox"
    /\ \E i \in DOMAIN ops :
          /\ ops[i].op = "printFile"
          /\ ops[i].arg.title = TitlePrefix \o <<58, 32, 48, 49, 32, 40, 68, 114, 41>>

\* print.py submitted a label for a record named "N/A": the tag alone
C20_WitnessNoName ==
    /\ script = "homebox"
    /\ \E i \in DOMAIN ops :
          /\ ops[i].op = "printFile"
          /\ ops[i].arg.title = TitlePrefix \o <<58, 32, 48, 49>>

\* the positions inside _send_zpl_bytes_to_cups
SendPcs == {"s_connect", "s_printers", "s_stage", "s_print", "s_finally"}

\* the call was made and main has it behind it
C21_Returned ==
    /\ (Did("connect") /\ pc \in {"m_return", "done"}) =>
          /\ send_return \in {"true", "false"}
          /\ (send_return = "true") <=> (print_outcome = "job")
          /\ pc = "done" => exit_code = 0
    /\ send_return = "true" =>
          /\ conn = "ok"
          /\ printers.known
          /\ PRINTER_QUEUE_NAME \in Range(printers.names)
          /\ tmpfile.created
          /\ tmpfile.content = zpl_data_bytes
          /\ Count("printFile") = 1
          /\ print_outcome = "job"
          /\ \A i \in DOMAIN phases : phases[i] # "failed"
          /\ ~Printed("runtime_error")
          /\ ~Printed("ipp_error")
          /\ ~Printed("unexpected_error")
    /\ (\E i \in DOMAIN phases : phases[i] = "failed") => send_return # "true"
    /\ pc \in SendPcs => (send_return = "none" /\ ENABLED Next)

\* a step taken inside the function stays inside it or returns to main: no
\* exception carries control past the caller
C21_StepReturns ==
    pc \in SendPcs =>
        /\ pc' \in SendPcs \cup {"m_return"}
        /\ exit_code' = -1
        /\ pc' = "m_return" => send_return' \in {"true", "false"}

\* C21: _send_zpl_bytes_to_cups never propagates an exception to its caller:
\* every call returns, and it returns True exactly when printFile returned a
\* job id; True is never returned when the connection, the queue validation,
\* the staging or the submission failed.
C21_SendReturns == []C21_Returned /\ [][C21_StepReturns]_vars

\* printFile returned a job id and the call returned True
C21_Witness ==
    /\ send_return = "true"
    /\ print_outcome = "job"
    /\ pc = "done"
    /\ exit_code = 0

\* printFile raised IPPError and the call returned False
C21_WitnessRaised ==
    /\ send_return = "false"
    /\ print_outcome = "ipp_error"
    /\ pc = "m_return"

\* the staging failed and the call returned False
C21_WitnessStaging ==
    /\ send_return = "false"
    /\ Printed("unexpected_error")
    /\ ~Did("printFile")
    /\ pc = "m_return"

\* the staged file is on disk, closed, and holds the whole payload
StagedComplete(file) ==
    /\ file.created
    /\ file.exists
    /\ file.closed
    /\ file.content = zpl_data_bytes

\* about to call printFile, and after every call of it
C22_Staged ==
    /\ pc = "s_print" =>
          /\ StagedComplete(tmpfile)
          /\ temp_file_path = "tmp.zpl"
          /\ zpl_data_bytes = Utf8Encode(rendered.text)
          /\ remove_log = <<>>
          /\ ~Did("remove")
    /\ \A i \in DOMAIN ops :
          ops[i].op = "printFile" =>
              /\ ops[i].arg.filename = temp_file_path
              /\ \A j \in DOMAIN ops : ops[j].op = "remove" => j > i
              /\ \E j \in 1..(i - 1) : ops[j].op = "write"

\* the step that calls printFile finds the complete file and leaves it there
C22_PrintFileStep ==
    Count("printFile")' > Count("printFile") =>
        /\ StagedComplete(tmpfile)
        /\ tmpfile' = tmpfile
        /\ remove_log' = <<>>
        /\ ~Did("remove")'

\* C22: when printFile is called the staged temporary file exists, has been
\* completely written and closed, and holds exactly the payload bytes passed
\* to _send_zpl_bytes_to_cups; the file is never removed before printFile has
\* returned or raised.
C22_StagedBeforePrint == []C22_Staged /\ [][C22_PrintFileStep]_vars

\* printFile has been called on a payload with a multi-byte character and
\* the file is still on disk
C22_Witness ==
    /\ pc = "s_finally"
    /\ Count("printFile") = 1
    /\ StagedComplete(tmpfile)
    /\ Len(tmpfile.content) > Len(rendered.text)
    /\ ~Did("remove")

\* printFile raised, and the file was removed only afterwards
C22_WitnessRemoved ==
    /\ print_outcome = "runtime_error"
    /\ ~tmpfile.exists
    /\ ops[Len(ops)].op = "remove"
    /\ ops[Len(ops) - 1].op = "printFile"

====
